---- MODULE Spec2Model ----
(***************************************************************************)
(* Model of pympler/process.py: the process memory prober (strategy        *)
(* selection at module load, the per-strategy update() methods,            *)
(* ProcessMemoryInfo() and is_available()) and the thread census           *)
(* (ThreadInfo, get_current_threads).                                       *)
(*                                                                         *)
(* Text is a sequence of symbols.  A symbol is a decimal digit, "-", ":",  *)
(* a whitespace character (" ", "\t", "\n") or a run of letters kept as    *)
(* one opaque symbol ("VmData", "kB", "RSS").  str.split, str.strip,       *)
(* readlines and int are computed on those sequences.                      *)
(***************************************************************************)
EXTENDS Integers, Sequences, FiniteSets, TLC

\* ------------------------------------------------------------------ bounds

\* Largest number the operating system reports in any one field.
MaxVal == 1

\* The numbers reported are the multiples k * ValStep, k \in 0..MaxVal.
ValStep == 512

\* Largest number of threads alive at once.
MaxThreads == 2

\* ------------------------------------------------------------- text (Python)

DigitChars == <<"0", "1", "2", "3", "4", "5", "6", "7", "8", "9">>

IsDigit(c) == \E i \in 1..10 : DigitChars[i] = c

DigitVal(c) == (CHOOSE i \in 1..10 : DigitChars[i] = c) - 1

IsSpace(c) == c \in {" ", "\t", "\n"}

\* The k-th smallest element of a set of positions.
Nth(P, k) == CHOOSE i \in P : Cardinality({j \in P : j < i}) = k - 1

\* str.split() without arguments: the maximal runs of non-whitespace.
str_split(s) ==
    LET starts == {i \in 1..Len(s) : ~IsSpace(s[i]) /\ (i = 1 \/ IsSpace(s[i - 1]))}
        EndOf(i) == CHOOSE j \in i..Len(s) :
                        /\ \A m \in i..j : ~IsSpace(s[m])
                        /\ j = Len(s) \/ IsSpace(s[j + 1])
    IN  [k \in 1..Cardinality(starts) |-> SubSeq(s, Nth(starts, k), EndOf(Nth(starts, k)))]

\* str.split(sep): cut at every occurrence of sep, empty pieces kept.
str_split_sep(s, sep) ==
    LET cuts == {i \in 1..Len(s) : s[i] = sep}
        n == Cardinality(cuts)
        Cut(k) == IF k = 0 THEN 0 ELSE IF k = n + 1 THEN Len(s) + 1 ELSE Nth(cuts, k)
    IN  [k \in 1..(n + 1) |-> SubSeq(s, Cut(k - 1) + 1, Cut(k) - 1)]

\* file.readlines(): the lines, each with its terminating newline; what
\* follows the last newline, if anything, is a last line without one.
file_readlines(s) ==
    LET cuts == {i \in 1..Len(s) : s[i] = "\n"}
        n == Cardinality(cuts)
        Cut(k) == IF k = 0 THEN 0 ELSE Nth(cuts, k)
        whole == [k \in 1..n |-> SubSeq(s, Cut(k - 1) + 1, Cut(k))]
    IN  IF Cut(n) < Len(s) THEN Append(whole, SubSeq(s, Cut(n) + 1, Len(s))) ELSE whole

\* str.strip()
str_strip(s) ==
    LET keep == {i \in 1..Len(s) : ~IsSpace(s[i])} IN
    IF keep = {} THEN <<>>
    ELSE SubSeq(s, CHOOSE i \in keep : \A j \in keep : i <= j,
                   CHOOSE i \in keep : \A j \in keep : j <= i)

AllDigits(t) == t # <<>> /\ \A i \in 1..Len(t) : IsDigit(t[i])

\* Does int(t) succeed?  (an optional sign, then decimal digits)
IsInt(t) ==
    \/ AllDigits(t)
    \/ t # <<>> /\ Head(t) = "-" /\ AllDigits(Tail(t))

RECURSIVE NatVal(_)
NatVal(t) ==
    IF t = <<>> THEN 0 ELSE 10 * NatVal(SubSeq(t, 1, Len(t) - 1)) + DigitVal(t[Len(t)])

\* int(t), for a token IsInt accepts.
int(t) == IF Head(t) = "-" THEN 0 - NatVal(Tail(t)) ELSE NatVal(t)

\* The decimal text the operating system prints for a natural number.
RECURSIVE Digits(_)
Digits(n) ==
    IF n < 10 THEN <<DigitChars[n + 1]>>
    ELSE Digits(n \div 10) \o <<DigitChars[(n % 10) + 1]>>

\* Python's zero-based indexing seq[i], and seq[-k] from the end.
At(seq, i) == seq[i + 1]

FromEnd(seq, k) == seq[Len(seq) + 1 - k]

\* --------------------------------------- what the operating system answers

OSVals == {k * ValStep : k \in 0..MaxVal}

\* /proc/self/stat: "pid (comm) state n4 n5 ...\n".  nums[i] is the number
\* printed as the i-th field (fields 2 and 3 print as words).
StatLen == 26

StatNums(pf, v, r) ==
    [i \in 1..StatLen |->
        IF i = 12 THEN pf ELSE IF i = 23 THEN v ELSE IF i = 24 THEN r ELSE 100 + i]

RECURSIVE StatText(_, _)
StatText(nums, i) ==
    IF i > Len(nums) THEN <<"\n">>
    ELSE (IF i = 2 THEN <<"(python)">> ELSE IF i = 3 THEN <<"S">> ELSE Digits(nums[i]))
         \o (IF i < Len(nums) THEN <<" ">> ELSE <<>>) \o StatText(nums, i + 1)

\* /proc/self/status: one "Key:\t<value>\n" line per entry; raw is the value
\* as printed, n the number it starts with (0 when it is not a size).
VmEntry(key, n) == [key |-> key, n |-> n, raw |-> Digits(n) \o <<" ", "kB">>]

NameEntry == [key |-> "Name", n |-> 0, raw |-> <<"python">>]

ThreadsEntry == [key |-> "Threads", n |-> 1, raw |-> Digits(1)]

StatusLine(e) == <<e.key, ":", "\t", " ">> \o e.raw \o <<"\n">>

RECURSIVE StatusText(_)
StatusText(es) == IF es = <<>> THEN <<>> ELSE StatusLine(Head(es)) \o StatusText(Tail(es))

\* The listing of a kernel thread (no Vm lines), a full listing, and a short
\* one in another order; n is the size the data segment line reports.
StatusBlocks(n) ==
    { <<NameEntry, ThreadsEntry>>,
      <<NameEntry, VmEntry("VmPeak", n + 5), VmEntry("VmSize", n + 4),
        VmEntry("VmLck", 0), VmEntry("VmHWM", n + 3), VmEntry("VmRSS", n + 2),
        VmEntry("VmData", n), VmEntry("VmStk", n + 1), VmEntry("VmExe", n + 6),
        VmEntry("VmLib", n + 7), VmEntry("VmPTE", n + 8), ThreadsEntry>>,
      <<VmEntry("VmStk", n + 1), ThreadsEntry, VmEntry("VmData", n)>> }

ProcIn(opened, wf, nums, entries, stat, status) ==
    [opened |-> opened, wf |-> wf, nums |-> nums, entries |-> entries,
     stat |-> stat, status |-> status]

GoodStat == StatText(StatNums(1, 2, 3), 1)

\* Sources that open but are not in the expected format.
MalformedProc ==
    { ProcIn(TRUE, FALSE, <<>>, <<>>, <<"1", " ", "(python)", " ", "S", "\n">>, <<>>),
      ProcIn(TRUE, FALSE, <<>>, <<>>,
             StatText([i \in 1..22 |-> i], 1) \o <<"x", " ", "7", "\n">>, <<>>),
      ProcIn(TRUE, FALSE, <<>>, <<>>, GoodStat, <<"garbage", "\n">>),
      ProcIn(TRUE, FALSE, <<>>, <<>>, GoodStat,
             <<"VmRSS", ":", "\t", "4", " ", "kB", "\n", "Name", ":", "\t", "a", ":", "b", "\n">>),
      ProcIn(TRUE, FALSE, <<>>, <<>>, GoodStat,
             <<"VmRSS", ":", "\t", "4", " ", "kB", "\n", "VmData", ":", "\t", "kB", "\n">>) }

ProcInputs ==
    { ProcIn(FALSE, FALSE, <<>>, <<>>, <<>>, <<>>) }
    \cup MalformedProc
    \cup UNION { { ProcIn(TRUE, TRUE, StatNums(n + 1, n, n + 2), es,
                          StatText(StatNums(n + 1, n, n + 2), 1), StatusText(es))
                   : es \in StatusBlocks(n) } : n \in OSVals }

\* /bin/ps -p<pid> -o rss,vsz: whether it could be launched, its exit status
\* and what it wrote to stdout.  ntok is the number of words written, ints
\* whether the last two are numbers, and then rss and vsz are those numbers.
PsOut(stdout, ntok, ints, rss, vsz) ==
    [stdout |-> stdout, ntok |-> ntok, ints |-> ints, rss |-> rss, vsz |-> vsz]

PsIn(launched, returncode, out) ==
    [launched |-> launched, returncode |-> returncode, stdout |-> out.stdout,
     ntok |-> out.ntok, ints |-> out.ints, rss |-> out.rss, vsz |-> out.vsz]

PsHeader == <<" ", " ", "RSS", " ", " ", " ", "VSZ", "\n">>

PsRow(rss, vsz) == <<" ">> \o Digits(rss) \o <<" ", " ">> \o Digits(vsz) \o <<"\n">>

PsNothing == PsOut(<<>>, 0, FALSE, 0, 0)

PsHeaderOnly == PsOut(PsHeader, 2, FALSE, 0, 0)

PsOutputs ==
    { PsNothing, PsHeaderOnly,
      PsOut(<<"RSS", " ", "7", "\n">>, 2, FALSE, 0, 0),
      PsOut(<<"7", " ", "VSZ", "\n">>, 2, FALSE, 0, 0),
      PsOut(<<"7", "\n">>, 1, FALSE, 0, 0) }
    \cup { PsOut(PsHeader \o PsRow(n + 1, n), 4, TRUE, n + 1, n) : n \in OSVals }
    \cup { PsOut(PsRow(n + 1, n), 2, TRUE, n + 1, n) : n \in OSVals }

PSInputs ==
    { PsIn(FALSE, 0, PsNothing), PsIn(TRUE, 1, PsHeaderOnly),
      PsIn(TRUE, 1, PsOut(PsHeader \o PsRow(3, 4), 4, TRUE, 3, 4)) }
    \cup { PsIn(TRUE, 0, out) : out \in PsOutputs }

\* getrusage(RUSAGE_SELF)
RUsage(maxrss, idrss, ixrss, isrss, majflt) ==
    [ru_maxrss |-> maxrss, ru_idrss |-> idrss, ru_ixrss |-> ixrss, ru_isrss |-> isrss,
     ru_majflt |-> majflt]

\* Linux leaves the three integral sizes at zero; other kernels fill them.
ResourceInputs ==
    { RUsage(m, 0, 0, 0, n) : m \in OSVals, n \in OSVals }
    \cup { RUsage(m, n + 1, n + 2, n + 3, n + 4) : m \in OSVals, n \in OSVals }

\* GetProcessMemoryInfo(GetCurrentProcess())
Win32Inputs ==
    { [PagefileUsage |-> n, WorkingSetSize |-> n + 1, PageFaultCount |-> n + 2]
      : n \in OSVals }

\* The base class asks the operating system nothing.
NoInput == [none |-> TRUE]

Inputs(cls) ==
    CASE cls = "Base"     -> {NoInput}
      [] cls = "PS"       -> PSInputs
      [] cls = "Proc"     -> ProcInputs
      [] cls = "Resource" -> ResourceInputs
      [] cls = "Win32"    -> Win32Inputs

\* ------------------------------------------------- the text functions, tabled

\* Every text the answers above hand to split, readlines and strip.  The
\* functions are computed once per text and looked up afterwards.
Range(f) == {f[i] : i \in DOMAIN f}

StatusLines == UNION {Range(file_readlines(in.status)) : in \in ProcInputs}

StatusValues ==
    {kv[2] : kv \in {p \in {str_split_sep(l, ":") : l \in StatusLines} : Len(p) = 2}}

SplitTexts == {in.stat : in \in ProcInputs} \cup {in.stdout : in \in PSInputs} \cup StatusValues

SplitTable == [t \in SplitTexts |-> str_split(t)]

split(t) == SplitTable[t]

LinesTable == [t \in {in.status : in \in ProcInputs} |-> file_readlines(t)]

readlines(t) == LinesTable[t]

ColonTable == [l \in StatusLines |-> str_split_sep(l, ":")]

split_colon(l) == ColonTable[l]

StripTable == [t \in StatusValues |-> str_strip(t)]

strip(t) == StripTable[t]

\* ------------------------------------------------ _ProcessMemoryInfo objects

Classes == {"Base", "Proc", "PS", "Resource", "Win32"}

\* The attributes __init__ sets before it calls update().  `available` is
\* assigned only when update() has returned; FALSE stands for "not yet set".
NewObject(cls) ==
    [cls |-> cls, rss |-> 0, vsz |-> 0, pagefaults |-> 0, os_specific |-> <<>>,
     data_segment |-> 0, code_segment |-> 0, shared_segment |-> 0,
     stack_segment |-> 0, available |-> FALSE]

\* An update() yields the object as it left it and how it ended:
\* "true", "false" (the value returned) or "raise" (an exception left it).
Result(self, out) == [self |-> self, out |-> out]

\* _ProcessMemoryInfo.update
UpdateBase(self, in) == Result(self, "false")

\* PSParse with the two columns taken in the wrong order.
PSParse_Swapped(self, returncode, s) ==
    IF returncode = 0 /\ Len(s) >= 2
    THEN IF ~IsInt(FromEnd(s, 1))
         THEN Result(self, "raise")
         ELSE IF ~IsInt(FromEnd(s, 2))
              THEN Result([self EXCEPT !.vsz = int(FromEnd(s, 1)) * 1024], "raise")
              ELSE Result([self EXCEPT !.vsz = int(FromEnd(s, 2)) * 1024,
                                       !.rss = int(FromEnd(s, 1)) * 1024], "true")
    ELSE Result(self, "false")

\* The else branch of _ProcessMemoryInfoPS.update, s being
\* p.communicate()[0].split().
PSParse(self, returncode, s) ==
    IF returncode = 0 /\ Len(s) >= 2
    THEN IF ~IsInt(FromEnd(s, 1))
         THEN Result(self, "raise")
         ELSE IF ~IsInt(FromEnd(s, 2))
              THEN Result([self EXCEPT !.vsz = int(FromEnd(s, 1)) * 1024], "raise")
              ELSE Result([self EXCEPT !.vsz = int(FromEnd(s, 1)) * 1024,
                                       !.rss = int(FromEnd(s, 2)) * 1024], "true")
    ELSE Result(self, "false")

\* _ProcessMemoryInfoPS.update
UpdatePS(self, in) ==
    IF ~in.launched
    THEN Result(self, "false")
    ELSE PSParse(self, in.returncode, split(in.stdout))

key_map ==
    [VmPeak |-> "Peak virtual memory size",
     VmSize |-> "Virtual memory size",
     VmLck  |-> "Locked memory size",
     VmHWM  |-> "Peak resident set size",
     VmRSS  |-> "Resident set size",
     VmStk  |-> "Size of stack segment",
     VmData |-> "Size of data segment",
     VmExe  |-> "Size of code segment",
     VmLib  |-> "Shared library code size",
     VmPTE  |-> "Page table entries size"]

\* Can size_in_bytes(x) be computed?  (x.split()[0] exists and int takes it)
SizeOk(x) == Len(split(x)) > 0 /\ IsInt(At(split(x), 0))

size_in_bytes(x) == int(At(split(x), 0)) * 1024

\* The if/elif chain on key of the loop body.
SetSegment(self, key, value) ==
    IF key = <<"VmData">> THEN [self EXCEPT !.data_segment = size_in_bytes(value)]
    ELSE IF key = <<"VmExe">> THEN [self EXCEPT !.code_segment = size_in_bytes(value)]
    ELSE IF key = <<"VmLib">> THEN [self EXCEPT !.shared_segment = size_in_bytes(value)]
    ELSE IF key = <<"VmStk">> THEN [self EXCEPT !.stack_segment = size_in_bytes(value)]
    ELSE self

\* key = self.key_map.get(key); if key: self.os_specific.append(...)
AppendSpecific(self, key, value) ==
    IF Len(key) = 1 /\ key[1] \in DOMAIN key_map
    THEN [self EXCEPT !.os_specific = Append(@, <<key_map[key[1]], strip(value)>>)]
    ELSE self

\* The body of `for entry in status.readlines()` for one entry whose split
\* at ':' gave exactly key and value.
StatusEntry(self, key, value) == AppendSpecific(SetSegment(self, key, value), key, value)

\* One entry, kv being entry.split(':'): an entry that does not unpack into
\* (key, value), or a segment value int() rejects, raises.
EntryOk(kv) ==
    /\ Len(kv) = 2
    /\ kv[1] \in {<<"VmData">>, <<"VmExe">>, <<"VmLib">>, <<"VmStk">>} => SizeOk(kv[2])

\* The loop over status.readlines().
RECURSIVE StatusLoop(_, _)
StatusLoop(self, entries) ==
    IF Len(entries) = 0
    THEN Result(self, "true")
    ELSE IF ~EntryOk(split_colon(Head(entries)))
         THEN Result(self, "raise")
         ELSE StatusLoop(StatusEntry(self, split_colon(Head(entries))[1],
                                     split_colon(Head(entries))[2]),
                         Tail(entries))

\* StatFields reading the virtual size one field too early.
StatFields_OffByOne(self, stats, pagesize) ==
    IF Len(stats) <= 23 \/ ~IsInt(At(stats, 21)) \/ ~IsInt(At(stats, 23))
          \/ ~IsInt(At(stats, 11))
    THEN Result(self, "raise")
    ELSE Result([self EXCEPT !.vsz = int(At(stats, 21)),
                             !.rss = int(At(stats, 23)) * pagesize,
                             !.pagefaults = int(At(stats, 11))], "true")

\* The three assignments from stat.read().split(), in source order.
StatFields(self, stats, pagesize) ==
    IF Len(stats) <= 22 \/ ~IsInt(At(stats, 22))
    THEN Result(self, "raise")
    ELSE IF Len(stats) <= 23 \/ ~IsInt(At(stats, 23))
         THEN Result([self EXCEPT !.vsz = int(At(stats, 22))], "raise")
         ELSE IF ~IsInt(At(stats, 11))
              THEN Result([self EXCEPT !.vsz = int(At(stats, 22)),
                                       !.rss = int(At(stats, 23)) * pagesize], "raise")
              ELSE Result([self EXCEPT !.vsz = int(At(stats, 22)),
                                       !.rss = int(At(stats, 23)) * pagesize,
                                       !.pagefaults = int(At(stats, 11))], "true")

\* What follows the stat assignments: the loop, unless they raised.
ThenStatus(st, status) ==
    IF st.out = "raise" THEN st ELSE StatusLoop(st.self, readlines(status))

\* _ProcessMemoryInfoProc.update
UpdateProc(self, in, pagesize) ==
    IF ~in.opened
    THEN Result(self, "false")
    ELSE ThenStatus(StatFields(self, split(in.stat), pagesize), in.status)

\* UpdateResource judging success by any field rather than by rss.
UpdateResource_AnyField(self, in) ==
    Result([self EXCEPT !.rss = in.ru_maxrss * 1024,
                        !.data_segment = in.ru_idrss * 1024,
                        !.shared_segment = in.ru_ixrss * 1024,
                        !.stack_segment = in.ru_isrss * 1024,
                        !.vsz = in.ru_idrss * 1024 + in.ru_ixrss * 1024 + in.ru_isrss * 1024,
                        !.pagefaults = in.ru_majflt],
           IF in.ru_maxrss # 0 \/ in.ru_idrss # 0 THEN "true" ELSE "false")

\* _ProcessMemoryInfoResource.update
UpdateResource(self, in) ==
    Result([self EXCEPT !.rss = in.ru_maxrss * 1024,
                        !.data_segment = in.ru_idrss * 1024,
                        !.shared_segment = in.ru_ixrss * 1024,
                        !.stack_segment = in.ru_isrss * 1024,
                        !.vsz = in.ru_idrss * 1024 + in.ru_ixrss * 1024 + in.ru_isrss * 1024,
                        !.pagefaults = in.ru_majflt],
           IF in.ru_maxrss * 1024 # 0 THEN "true" ELSE "false")

\* _ProcessMemoryInfoWin32.update
UpdateWin32(self, in) ==
    Result([self EXCEPT !.vsz = in.PagefileUsage,
                        !.rss = in.WorkingSetSize,
                        !.pagefaults = in.PageFaultCount], "true")

\* self.update(), dispatched on the object's class.
Update(self, in, pagesize) ==
    CASE self.cls = "Base"     -> UpdateBase(self, in)
      [] self.cls = "PS"       -> UpdatePS(self, in)
      [] self.cls = "Proc"     -> UpdateProc(self, in, pagesize)
      [] self.cls = "Resource" -> UpdateResource(self, in)
      [] self.cls = "Win32"    -> UpdateWin32(self, in)

\* ------------------------------------------------------------------ state

VARIABLES
    pc,                 \* where module loading stands, then "loaded"
    host,               \* what the host offers: resource module, pywin32, page size
    ProcessMemoryInfo,  \* the class the module-level name is bound to
    probe,              \* per candidate: how its `X().update()` at load ended
    op,                 \* the last operation run
    pre,                \* the object before the last update() of that operation
    obj,                \* the object after it
    ins,                \* the operating system's answers that operation consumed
    ret,                \* how the operation ended: "true", "false" or "raise"
    threads,            \* threading.enumerate(): the thread objects, in order
    active,             \* threading._active.items(): <<tid, thread>> pairs, in order
    hasIdent,           \* do thread objects have .ident/.name/.daemon (Python >= 2.6)
    census,             \* what the last get_current_threads() returned
    enumerated          \* the enumeration and the registry that call read

memVars == <<pc, host, ProcessMemoryInfo, probe, op, pre, obj, ins, ret>>

threadVars == <<threads, active, hasIdent, census, enumerated>>

vars == <<pc, host, ProcessMemoryInfo, probe, op, pre, obj, ins, ret,
          threads, active, hasIdent, census, enumerated>>

\* resource.getpagesize, or the lambda used when resource cannot be imported.
DefaultPagesize == 4096

PageSizes == {DefaultPagesize, 4 * DefaultPagesize}

Hosts ==
    { [resource |-> TRUE, win32 |-> FALSE, pagesize |-> p] : p \in PageSizes }
    \cup { [resource |-> FALSE, win32 |-> w, pagesize |-> DefaultPagesize]
           : w \in BOOLEAN }

Candidates == {"Proc", "PS", "Resource"}

\* ----------------------------------------------------------- memory prober

\* self.available = self.update(), r being how update() ended.  When it
\* raised, no object comes into being.
SetAvailable(r) ==
    IF r.out = "raise"
    THEN r
    ELSE Result([r.self EXCEPT !.available = (r.out = "true")], r.out)

\* _ProcessMemoryInfo.__init__: zero the fields, then available = update().
Construct(cls, in, pagesize) == SetAvailable(Update(NewObject(cls), in, pagesize))

Outcome(before, after, inputs, out) ==
    [pre |-> before, obj |-> after, ins |-> inputs, ret |-> out]

Constructed(cls, c, in) == Outcome(NewObject(cls), c.self, <<in>>, c.out)

\* The expression `cls()`.
New(cls, in, pagesize) == Constructed(cls, Construct(cls, in, pagesize), in)

Updated(c, u, in1, in2) == Outcome(c.self, u.self, <<in1, in2>>, u.out)

\* `.update()` on what the constructor call c made, if it made an object.
ThenUpdate(cls, c, in1, in2, pagesize) ==
    IF c.out = "raise"
    THEN Constructed(cls, c, in1)
    ELSE Updated(c, Update(c.self, in2, pagesize), in1, in2)

\* The expression `cls().update()`: the constructor runs update() once, and
\* update() is then called on the object it made.
NewThenUpdate(cls, in1, in2, pagesize) ==
    ThenUpdate(cls, Construct(cls, in1, pagesize), in1, in2, pagesize)

Ran(name, o) ==
    /\ op' = name
    /\ pre' = o.pre
    /\ obj' = o.obj
    /\ ins' = o.ins
    /\ ret' = o.ret

\* ImportResource with the probes outside the try body: they run on every host.
ImportResource_ProbesAnyway ==
    /\ pc = "import_resource"
    /\ pc' = "probe_proc"
    /\ UNCHANGED <<host, ProcessMemoryInfo, probe, op, pre, obj, ins, ret>>
    /\ UNCHANGED threadVars

\* `from resource import getrusage, RUSAGE_SELF`: on ImportError the whole
\* try body, the three probes included, is skipped.
ImportResource ==
    /\ pc = "import_resource"
    /\ pc' = IF host.resource THEN "probe_proc" ELSE "import_win32"
    /\ UNCHANGED <<host, ProcessMemoryInfo, probe, op, pre, obj, ins, ret>>
    /\ UNCHANGED threadVars

\* Probed binding the class whatever update() returned.
Probed_BindsUnchecked(cls, next, o) ==
    /\ Ran("probe", o)
    /\ probe' = [probe EXCEPT ![cls] = o.ret]
    /\ ProcessMemoryInfo' = IF o.ret # "raise" THEN cls ELSE ProcessMemoryInfo
    /\ pc' = CASE o.ret = "true"  -> "loaded"
               [] o.ret = "false" -> next
               [] o.ret = "raise" -> "load_failed"

\* What a probe that ended as o does: bind cls when it returned true, go on
\* to `next` when it returned false.  An exception that is not an ImportError
\* ends the import of the module.
Probed(cls, next, o) ==
    /\ Ran("probe", o)
    /\ probe' = [probe EXCEPT ![cls] = o.ret]
    /\ ProcessMemoryInfo' = IF o.ret = "true" THEN cls ELSE ProcessMemoryInfo
    /\ pc' = CASE o.ret = "true"  -> "loaded"
               [] o.ret = "false" -> next
               [] o.ret = "raise" -> "load_failed"

\* One branch of the if/elif chain: `cls().update()`.
ProbeStep(cls, here, next) ==
    /\ pc = here
    /\ \E in1 \in Inputs(cls), in2 \in Inputs(cls) :
          Probed(cls, next, NewThenUpdate(cls, in1, in2, host.pagesize))
    /\ UNCHANGED host
    /\ UNCHANGED threadVars

ProbeProc == ProbeStep("Proc", "probe_proc", "probe_ps")

ProbePS == ProbeStep("PS", "probe_ps", "probe_resource")

ProbeResource == ProbeStep("Resource", "probe_resource", "loaded")

\* The ImportError handler: with pywin32 the Win32 class is defined and bound
\* without being probed; without it nothing is bound.
ImportWin32 ==
    /\ pc = "import_win32"
    /\ ProcessMemoryInfo' = IF host.win32 THEN "Win32" ELSE ProcessMemoryInfo
    /\ pc' = "loaded"
    /\ UNCHANGED <<host, probe, op, pre, obj, ins, ret>>
    /\ UNCHANGED threadVars

\* ProcessMemoryInfo(): a snapshot from the bound class.
Snapshot ==
    /\ pc = "loaded"
    /\ \E in \in Inputs(ProcessMemoryInfo) :
          Ran("snapshot", New(ProcessMemoryInfo, in, host.pagesize))
    /\ UNCHANGED <<pc, host, ProcessMemoryInfo, probe>>
    /\ UNCHANGED threadVars

\* is_available(): `return ProcessMemoryInfo().update()`.
is_available ==
    /\ pc = "loaded"
    /\ \E in1 \in Inputs(ProcessMemoryInfo), in2 \in Inputs(ProcessMemoryInfo) :
          Ran("is_available",
              NewThenUpdate(ProcessMemoryInfo, in1, in2, host.pagesize))
    /\ UNCHANGED <<pc, host, ProcessMemoryInfo, probe>>
    /\ UNCHANGED threadVars

\* ------------------------------------------------------------ thread census

\* Thread objects are told apart by oid (object identity); tid is the
\* identifier the runtime gave the running thread.  The k-th thread object
\* made has the k-th name and the k-th identifier.
Oids == 1..MaxThreads

Names == <<"MainThread", "Thread-1", "Thread-2", "Thread-3", "Thread-4">>

Tid(oid) == 100 + oid

NewThread(oid, daemon) ==
    [oid |-> oid, name |-> Names[oid], daemon |-> daemon, tid |-> Tid(oid)]

MainThread == NewThread(1, FALSE)

InsertAt(seq, i, e) == SubSeq(seq, 1, i - 1) \o <<e>> \o SubSeq(seq, i, Len(seq))

RemoveAt(seq, i) == SubSeq(seq, 1, i - 1) \o SubSeq(seq, i + 1, Len(seq))

\* ScanActive without the identity test: the first key found.
ScanActive_First(items, thread) == IF items = <<>> THEN 0 ELSE Head(items)[1]

\* The scan of threading._active.items() for the entry that `is` the thread.
RECURSIVE ScanActive(_, _)
ScanActive(items, thread) ==
    IF items = <<>> THEN 0
    ELSE IF Head(items)[2] = thread.oid THEN Head(items)[1]
    ELSE ScanActive(Tail(items), thread)

\* ThreadInfo.__init__
ThreadInfo(thread, items, identAttr) ==
    [ident  |-> IF identAttr THEN thread.tid ELSE ScanActive(items, thread),
     name   |-> thread.name,
     daemon |-> thread.daemon]

\* A thread is started: it shows up in the enumeration, and in the registry
\* once it runs.  Before Python 2.6 a thread still starting up is enumerated
\* without a registry entry.
StartThread ==
    /\ Len(threads) < MaxThreads
    /\ \E oid \in Oids, daemon \in BOOLEAN, registered \in BOOLEAN,
          i \in 1..(Len(threads) + 1), j \in 1..(Len(active) + 1) :
          /\ \A k \in 1..Len(threads) : threads[k].oid # oid
          /\ registered \/ ~hasIdent
          /\ threads' = InsertAt(threads, i, NewThread(oid, daemon))
          /\ active' = IF registered THEN InsertAt(active, j, <<Tid(oid), oid>>) ELSE active
    /\ UNCHANGED <<hasIdent, census, enumerated>>
    /\ UNCHANGED memVars

\* A thread other than the main thread ends.
ExitThread ==
    /\ \E i \in 1..Len(threads) :
          /\ threads[i].oid # MainThread.oid
          /\ threads' = RemoveAt(threads, i)
          /\ active' = SelectSeq(active, LAMBDA e : e[2] # threads[i].oid)
    /\ UNCHANGED <<hasIdent, census, enumerated>>
    /\ UNCHANGED memVars

\* get_current_threads()
get_current_threads ==
    /\ census' = [i \in 1..Len(threads) |-> ThreadInfo(threads[i], active, hasIdent)]
    /\ enumerated' = [threads |-> threads, active |-> active]
    /\ UNCHANGED <<threads, active, hasIdent>>
    /\ UNCHANGED memVars

\* ----------------------------------------------------------- specifications

MemInit ==
    /\ pc = "import_resource"
    /\ ProcessMemoryInfo = "Base"
    /\ probe = [c \in Candidates |-> "none"]
    /\ op = "none"
    /\ pre = NewObject("Base")
    /\ obj = NewObject("Base")
    /\ ins = <<>>
    /\ ret = "none"

ThreadInit ==
    /\ threads = <<MainThread>>
    /\ active = <<<<MainThread.tid, MainThread.oid>>>>
    /\ census = <<>>
    /\ enumerated = [threads |-> <<>>, active |-> <<>>]

Init ==
    /\ MemInit
    /\ host \in Hosts
    /\ ThreadInit
    /\ hasIdent = TRUE

Next ==
    \/ ImportResource
    \/ ProbeProc
    \/ ProbePS
    \/ ProbeResource
    \/ ImportWin32
    \/ Snapshot
    \/ is_available

Spec == Init /\ [][Next]_vars

ThreadsInit ==
    /\ MemInit
    /\ host = [resource |-> TRUE, win32 |-> FALSE, pagesize |-> DefaultPagesize]
    /\ ThreadInit
    /\ hasIdent \in BOOLEAN

ThreadsNext ==
    \/ StartThread
    \/ ExitThread
    \/ get_current_threads

ThreadsSpec == ThreadsInit /\ [][ThreadsNext]_vars

\* ------------------------------------------------------------------ claims

\* Has the last operation built an object with __init__?  Every operation
\* does, unless the constructor's update() raised.
Built == op # "none" /\ (Len(ins) = 2 \/ ret # "raise")

\* The object as __init__ left it: every operation starts by constructing
\* one, and `pre` holds it when a second update() followed.
Fresh == IF Len(ins) = 2 THEN pre ELSE obj

\* How the constructor's update() ended, and what it was answered.
FreshOut == IF Len(ins) = 2 THEN (IF pre.available THEN "true" ELSE "false") ELSE ret

FreshIn == ins[1]

NumericZero(o) ==
    /\ o.vsz = 0 /\ o.rss = 0 /\ o.pagefaults = 0
    /\ o.data_segment = 0 /\ o.code_segment = 0
    /\ o.shared_segment = 0 /\ o.stack_segment = 0

FirstSucceeded ==
    IF probe["Proc"] = "true" THEN "Proc"
    ELSE IF probe["PS"] = "true" THEN "PS"
    ELSE IF probe["Resource"] = "true" THEN "Resource"
    ELSE "Base"

ProbedInOrder ==
    /\ probe["Proc"] # "none"
    /\ probe["PS"] # "none" <=> probe["Proc"] = "false"
    /\ probe["Resource"] # "none" <=> probe["PS"] = "false"

\* C1: with the resource module present, once the module is loaded the bound
\* class is the first of Proc, PS, Resource (probed in that order, each only
\* after the one before returned false) whose probe returned true, or Base
\* when none did; and no step taken after loading, whatever its update()
\* calls return, changes the binding.
C1_BindingIsFirstSuccess ==
    /\ [](pc = "loaded" /\ host.resource
            => ProbedInOrder /\ ProcessMemoryInfo = FirstSucceeded)
    /\ [][pc = "loaded" => ProcessMemoryInfo' = ProcessMemoryInfo /\ probe' = probe]_vars

C1_Witness ==
    /\ pc = "loaded" /\ host.resource
    /\ probe["Proc"] = "false" /\ ProcessMemoryInfo = "PS"
    /\ op = "is_available" /\ ret = "false"

\* C2, as claimed: without the resource module, loading still probes Proc
\* first and PS second; Win32 is bound only when both probes returned false
\* and pywin32 is there, and otherwise the first that succeeded or Base.
C2_Original ==
    pc = "loaded" /\ ~host.resource
        => /\ probe["Proc"] # "none"
           /\ probe["PS"] # "none" <=> probe["Proc"] = "false"
           /\ ProcessMemoryInfo = "Win32"
                => probe["Proc"] = "false" /\ probe["PS"] = "false" /\ host.win32

\* C2, amended: without the resource module, loading probes no strategy and
\* runs no update(); it binds Win32 exactly when pywin32 can be imported,
\* and Base otherwise.
C2_Win32BoundUnprobed ==
    pc = "loaded" /\ ~host.resource
        => /\ \A c \in Candidates : probe[c] = "none"
           /\ op = "none" => ins = <<>>
           /\ ProcessMemoryInfo = IF host.win32 THEN "Win32" ELSE "Base"

C2_Witness ==
    /\ pc = "loaded" /\ ~host.resource /\ host.win32
    /\ ProcessMemoryInfo = "Win32" /\ op = "snapshot" /\ obj.available

\* C3, as claimed: an object whose available flag is false has all seven
\* numeric fields at 0, whatever class built it and whatever it was answered.
C3_Original == Built /\ ~Fresh.available => NumericZero(Fresh)

\* C4, as claimed: is_available() returns the available flag of the object
\* it constructed.
C4_Original ==
    op = "is_available" /\ Len(ins) = 2 /\ ret # "raise"
        => (ret = "true") = pre.available

\* C5, as claimed: update() of the PS class never raises, and when it
\* returns false vsz and rss are what they were before.
C5_Original ==
    op # "none" /\ obj.cls = "PS"
        => /\ ret # "raise"
           /\ ret = "false" => obj.vsz = pre.vsz /\ obj.rss = pre.rss

\* The size a status listing gives for a key, times 1024; 0, the default,
\* when the listing has no such line.
SegmentBytes(es, key) ==
    IF \E i \in 1..Len(es) : es[i].key = key
    THEN 1024 * es[CHOOSE i \in 1..Len(es) : es[i].key = key].n
    ELSE 0

RECURSIVE Labelled(_)
Labelled(es) ==
    IF es = <<>> THEN <<>>
    ELSE (IF Head(es).key \in DOMAIN key_map
          THEN << <<key_map[Head(es).key], Head(es).raw>> >>
          ELSE <<>>) \o Labelled(Tail(es))

\* C6: the Proc update() on a freshly constructed object, answered by two
\* readable and well-formed sources, returns true with vsz the 23rd stat
\* field, rss the 24th times the page size, pagefaults the 12th, the four
\* segment fields 1024 times the number of their status line (0 without
\* such a line) and os_specific the (label, trimmed value) pairs of the
\* lines whose key is in key_map, in line order; answered by a source that
\* cannot be opened it returns false and changes no field.
C6_ProcUpdate ==
    Built /\ Fresh.cls = "Proc"
        => /\ FreshIn.wf
                => /\ FreshOut = "true"
                   /\ Fresh.vsz = FreshIn.nums[23]
                   /\ Fresh.rss = FreshIn.nums[24] * host.pagesize
                   /\ Fresh.pagefaults = FreshIn.nums[12]
                   /\ Fresh.data_segment = SegmentBytes(FreshIn.entries, "VmData")
                   /\ Fresh.code_segment = SegmentBytes(FreshIn.entries, "VmExe")
                   /\ Fresh.shared_segment = SegmentBytes(FreshIn.entries, "VmLib")
                   /\ Fresh.stack_segment = SegmentBytes(FreshIn.entries, "VmStk")
                   /\ Fresh.os_specific = Labelled(FreshIn.entries)
           /\ ~FreshIn.opened
                => /\ FreshOut = "false"
                   /\ Fresh = NewObject("Proc")

C6_Witness ==
    /\ op = "snapshot" /\ obj.cls = "Proc" /\ ret = "true"
    /\ FreshIn.wf /\ Len(FreshIn.entries) = 12
    /\ obj.data_segment = 1024 * ValStep
    /\ Len(obj.os_specific) = 10

\* C7: the PS update() on a freshly constructed object returns true exactly
\* when ps was launched, exited with status 0 and wrote at least two words of
\* which the last two are integers; vsz is then 1024 times the last, rss
\* 1024 times the one before it, and pagefaults, the four segment fields and
\* os_specific are at their defaults.
C7_PSUpdate ==
    op # "none" /\ obj.cls = "PS"
        => /\ FreshOut = "true"
                <=> /\ FreshIn.launched /\ FreshIn.returncode = 0
                    /\ FreshIn.ntok >= 2 /\ FreshIn.ints
           /\ FreshOut = "true"
                => /\ Fresh.vsz = FreshIn.vsz * 1024
                   /\ Fresh.rss = FreshIn.rss * 1024
                   /\ Fresh.pagefaults = 0
                   /\ Fresh.data_segment = 0 /\ Fresh.code_segment = 0
                   /\ Fresh.shared_segment = 0 /\ Fresh.stack_segment = 0
                   /\ Fresh.os_specific = <<>>

C7_Witness ==
    /\ op = "snapshot" /\ obj.cls = "PS" /\ ret = "true"
    /\ FreshIn.ntok = 4 /\ FreshIn.vsz = ValStep
    /\ obj.vsz = ValStep * 1024 /\ obj.rss = (ValStep + 1) * 1024

\* The answer the last update() of the last operation was given.
LastIn == ins[Len(ins)]

\* C8: the Resource update() sets rss to ru_maxrss * 1024, the data, shared
\* and stack segments to ru_idrss, ru_ixrss and ru_isrss times 1024, vsz to
\* the sum of those three and pagefaults to ru_majflt, and returns true
\* exactly when the rss it set is not 0.
C8_ResourceUpdate ==
    op # "none" /\ obj.cls = "Resource"
        => /\ obj.rss = LastIn.ru_maxrss * 1024
           /\ obj.data_segment = LastIn.ru_idrss * 1024
           /\ obj.shared_segment = LastIn.ru_ixrss * 1024
           /\ obj.stack_segment = LastIn.ru_isrss * 1024
           /\ obj.vsz = obj.data_segment + obj.shared_segment + obj.stack_segment
           /\ obj.pagefaults = LastIn.ru_majflt
           /\ ret = "true" <=> obj.rss # 0
           /\ ret # "raise"

C8_Witness ==
    /\ op # "none" /\ obj.cls = "Resource"
    /\ LastIn.ru_maxrss = 0 /\ LastIn.ru_idrss # 0
    /\ ret = "false" /\ obj.vsz # 0

\* The key under which the registry holds the thread, 0 when it does not.
RegisteredAs(items, thread) ==
    IF \E k \in 1..Len(items) : items[k][2] = thread.oid
    THEN items[CHOOSE k \in 1..Len(items) : items[k][2] = thread.oid][1]
    ELSE 0

\* C9: get_current_threads() returns one record per enumerated thread, in
\* enumeration order, with the thread's name and daemon flag, and as ident
\* the thread's identifier when threads have the ident attribute, otherwise
\* the registry key of the entry that is the thread, otherwise 0.
C9_Census ==
    /\ Len(census) = Len(enumerated.threads)
    /\ \A i \in 1..Len(census) :
          /\ census[i].name = enumerated.threads[i].name
          /\ census[i].daemon = enumerated.threads[i].daemon
          /\ census[i].ident = IF hasIdent THEN enumerated.threads[i].tid
                               ELSE RegisteredAs(enumerated.active, enumerated.threads[i])

C9_Witness ==
    /\ ~hasIdent /\ Len(census) = 2
    /\ \E i \in 1..2 : census[i].ident = 0
    /\ \E i \in 1..2 : census[i].ident = MainThread.tid /\ census[i].name = "MainThread"
    /\ census[1].daemon

\* C10, as claimed: every ProcessMemoryInfo(), every is_available() and every
\* probe at load executes update() exactly once.
C10_Original == op # "none" => Len(ins) = 1
====
